---- MODULE Spec2Model ----
(***************************************************************************)
(* NeuroTunes: the playlist allocator of general_user.py and the Firestore *)
(* facade DDB of db.py.                                                    *)
(*                                                                         *)
(* AllocSpec draws the inputs of get_recommended_playlist_for_user (the    *)
(* content of shared_recommendations.json, the user email, max_tracks) and *)
(* applies the function.  Spec runs the facade calls against a store that  *)
(* may fail any call with a GoogleAPIError; RecSpec and UserSpec run the   *)
(* calls on one collection and also keep the call before the last one.     *)
(***************************************************************************)
EXTENDS Integers, Sequences, FiniteSets, TLC

\* ------------------------------------------------------------------ bounds
MaxLen == 3        \* longest caregiver category list
MaxScore == 3      \* caregiver scores are 0..MaxScore
MaxTracks == 10    \* largest max_tracks
NegTracks == 1     \* max_tracks goes down to -NegTracks
MaxTime == 1       \* _ts_ms() reads 0..MaxTime
MaxEvents == 2     \* documents the Events collection can hold

Max(a, b) == IF a >= b THEN a ELSE b
Min(a, b) == IF a <= b THEN a ELSE b

\* ------------------------------------------------------ general_user.py
\* The track ids of each category, in database order (the other fields of a
\* track are carried along unchanged and play no part in the allocation).
MELODY_DATABASE ==
    [c \in {"Classical", "Rock", "Pop", "Rap", "R&B"} |->
        CASE c = "Classical" -> <<1, 2, 3, 4, 5, 6, 7, 8, 9>>
          [] c = "Rock" -> <<10, 11, 12, 13, 14, 15, 16, 17, 18>>
          [] c = "Pop" -> <<19, 20, 21, 22, 23, 24, 25, 26, 27>>
          [] c = "Rap" -> <<28, 29, 30, 31, 32, 33, 34, 35, 36>>
          [] c = "R&B" -> <<37, 38, 39, 40, 41, 42, 43, 44, 45>>]

\* Category names a caregiver list can hold; "Jazz" is not in the catalog.
CategoryNames == {"Classical", "Rock", "Jazz"}

Item == [category : CategoryNames, score : 0..MaxScore]
CategoryLists == UNION {[1..n -> Item] : n \in 0..MaxLen}

EmptyDict == [k \in {} |-> 0]

\* An entry of the recommendations file: a dict with a 'categories' list, a
\* dict without that key, or a value that is no dict.
DictEntry(l) == [isdict |-> TRUE, has_categories |-> TRUE, categories |-> l]
NoCategoriesEntry == [isdict |-> TRUE, has_categories |-> FALSE, categories |-> <<>>]
NonDictEntry == [isdict |-> FALSE, has_categories |-> FALSE, categories |-> <<>>]
Entries == {NoCategoriesEntry, NonDictEntry} \cup {DictEntry(l) : l \in CategoryLists}

StoredEmail == "u1"
Emails == {"", StoredEmail}

\* shared_recommendations.json: missing, unreadable, or a JSON object.
Files ==
    {[state |-> "missing", data |-> EmptyDict],
     [state |-> "corrupt", data |-> EmptyDict],
     [state |-> "ok", data |-> EmptyDict]}
    \cup {[state |-> "ok", data |-> (StoredEmail :> e)] : e \in Entries}

_read_caregiver_recommendations(f) ==
    IF f.state = "ok" THEN f.data ELSE EmptyDict

\* Python's round() on n/d (d > 0): to nearest, ties to the even integer.
\* The float product score * max_tracks rounds like the exact quotient for
\* every total below 22.
Round(n, d) ==
    LET q == n \div d
        r == n - q * d
    IN  IF 2 * r < d THEN q
        ELSE IF 2 * r > d THEN q + 1
        ELSE IF q % 2 = 0 THEN q ELSE q + 1

SumScores(l) ==
    LET RECURSIVE S(_)
        S(i) == IF i > Len(l) THEN 0 ELSE l[i].score + S(i + 1)
    IN  S(1)

\* total = float(sum(...)) or 1.0
Total(l) == IF SumScores(l) = 0 THEN 1 ELSE SumScores(l)

\* The normalized list: entries of the catalog only, each score kept as the
\* fraction num/den = score/total.
Ranked(l) ==
    LET t == Total(l)
    IN  SelectSeq([i \in 1..Len(l) |->
                     [category |-> l[i].category, num |-> l[i].score, den |-> t]],
                  LAMBDA r : r.category \in DOMAIN MELODY_DATABASE)

\* mutant: no minimum of one track per category
Count_NoMinimum(ranked, i, remaining, mt) ==
    IF i = Len(ranked)
    THEN remaining
    ELSE Round(ranked[i].num * mt, ranked[i].den)

\* mutant: the last category gets its rounded share like the others
Count_LastNotFilled(ranked, i, remaining, mt) ==
    Max(1, Round(ranked[i].num * mt, ranked[i].den))

\* count of the i-th entry of the normalized list, before min(count, remaining)
Count(ranked, i, remaining, mt) ==
    IF i = Len(ranked)
    THEN Max(1, remaining)
    ELSE Max(1, Round(ranked[i].num * mt, ranked[i].den))

RECURSIVE AllocLoop(_, _, _, _, _)
AllocLoop(ranked, i, remaining, acc, mt) ==
    IF i > Len(ranked) THEN acc
    ELSE LET count == Min(Count(ranked, i, remaining, mt), remaining)
             acc2 == Append(acc, [category |-> ranked[i].category, count |-> count])
         IN  IF remaining - count <= 0 THEN acc2
             ELSE AllocLoop(ranked, i + 1, remaining - count, acc2, mt)

Allocate(ranked, mt) == AllocLoop(ranked, 1, mt, <<>>, mt)

\* tracks[:cnt]
Slice(tracks, cnt) ==
    IF cnt >= 0 THEN SubSeq(tracks, 1, Min(cnt, Len(tracks)))
    ELSE SubSeq(tracks, 1, Max(0, Len(tracks) + cnt))

\* MELODY_DATABASE.get(cat, [])
TrackList(cat) ==
    IF cat \in DOMAIN MELODY_DATABASE THEN MELODY_DATABASE[cat] ELSE <<>>

\* mutant: the inner loop without its length check
RECURSIVE AppendTracks_NoBreak(_, _, _, _, _)
AppendTracks_NoBreak(tracks, cat, j, pl, mt) ==
    IF j > Len(tracks) THEN pl
    ELSE AppendTracks_NoBreak(tracks, cat, j + 1,
                              Append(pl, [id |-> tracks[j], category |-> cat]), mt)

RECURSIVE AppendTracks(_, _, _, _, _)
AppendTracks(tracks, cat, j, pl, mt) ==
    IF j > Len(tracks) THEN pl
    ELSE LET pl2 == Append(pl, [id |-> tracks[j], category |-> cat])
         IN  IF Len(pl2) >= mt THEN pl2
             ELSE AppendTracks(tracks, cat, j + 1, pl2, mt)

RECURSIVE BuildPlaylist(_, _, _, _)
BuildPlaylist(al, i, pl, mt) ==
    IF i > Len(al) THEN pl
    ELSE LET pl2 == AppendTracks(Slice(TrackList(al[i].category), al[i].count),
                                 al[i].category, 1, pl, mt)
         IN  IF Len(pl2) >= mt THEN pl2
             ELSE BuildPlaylist(al, i + 1, pl2, mt)

\* mutant: without caregiver guidance fall back to the session's default
\* preferred category
RankedInput_DefaultPreferred(email, f) ==
    LET data == _read_caregiver_recommendations(f)
        preferred == <<[category |-> "Classical", score |-> 1]>>
    IN  IF email = "" THEN <<>>
        ELSE IF email \notin DOMAIN data THEN preferred
        ELSE IF ~data[email].isdict THEN preferred
        ELSE IF ~data[email].has_categories THEN preferred
        ELSE IF data[email].categories = <<>> THEN preferred
        ELSE data[email].categories

\* The caregiver list the function works on, <<>> where it returns early.
RankedInput(email, f) ==
    LET data == _read_caregiver_recommendations(f)
    IN  IF email = "" THEN <<>>
        ELSE IF email \notin DOMAIN data THEN <<>>
        ELSE IF ~data[email].isdict THEN <<>>
        ELSE IF ~data[email].has_categories THEN <<>>
        ELSE data[email].categories

\* ---------------------------------------------------------------- db.py
\* A collection is a function from document ids to documents; a document is
\* a function from field names to values.
EmptyCollection == [k \in {} |-> 0]

\* DocumentReference.set(data, merge): with merge the fields of data are
\* written over the existing document, without it data replaces the document.
DocSet(col, id, data, merge) ==
    LET old == IF merge /\ id \in DOMAIN col THEN col[id] ELSE EmptyDict
        doc == [f \in DOMAIN old \cup DOMAIN data |->
                  IF f \in DOMAIN data THEN data[f] ELSE old[f]]
    IN  (id :> doc) @@ col

\* mutant: an empty key is taken as a key
NoKey_NeverMissing(key) == FALSE

\* `not email`, `not song_id`
NoKey(key) == key = ""

\* name or "User"
NameOrUser(name) == IF name = "" THEN "User" ELSE name

\* mutant: the user document is replaced, not merged
UpsertUserWrite_Replace(col, email, name, t) ==
    DocSet(col, email,
           [user_email |-> email, name |-> NameOrUser(name), updated_at |-> t],
           FALSE)

\* self._users.document(email).set({...}, merge=True)
UpsertUserWrite(col, email, name, t) ==
    DocSet(col, email,
           [user_email |-> email, name |-> NameOrUser(name), updated_at |-> t],
           TRUE)

\* cognitive_scores is None (<<>>) or a dict (<<dict>>)
NoScores == <<>>

RecData(email, categories, scores, t) ==
    LET data == [user_email |-> email, updated_at |-> t, categories |-> categories]
    IN  IF scores = NoScores THEN data
        ELSE [f \in DOMAIN data \cup {"cognitive_scores"} |->
                IF f = "cognitive_scores" THEN scores[1] ELSE data[f]]

\* mutant: the recommendation document is merged, not replaced
PutRecWrite_Merge(col, email, categories, scores, t) ==
    DocSet(col, email, RecData(email, categories, scores, t), TRUE)

\* self._recs.document(email).set(data)
PutRecWrite(col, email, categories, scores, t) ==
    DocSet(col, email, RecData(email, categories, scores, t), FALSE)

\* mutant: the event is written under one fixed document id
LogEventWrite_FixedId(col, id, email, event_type, t) ==
    DocSet(col, 1,
           [user_email |-> email, ts |-> t, event_type |-> event_type,
            payload |-> EmptyDict],
           FALSE)

\* self._events.add({...}): a new document under the id the store generates
LogEventWrite(col, id, email, event_type, t) ==
    DocSet(col, id,
           [user_email |-> email, ts |-> t, event_type |-> event_type,
            payload |-> EmptyDict],
           FALSE)

\* mutant: the check succeeds only when the read finds a row
HealthCheckOutcome_NeedsRow(col, fail) ==
    IF fail THEN "False"
    ELSE IF DOMAIN col = {} THEN "False" ELSE "True"

\* health_check: stream one row of Users (col), break at the first if there
\* is one, return True; a GoogleAPIError returns False
HealthCheckOutcome(col, fail) ==
    IF fail THEN "False" ELSE "True"

\* self._songs.document(song_id).set({"song_id": song_id, **data})
PutSongWrite(col, song_id, data) ==
    DocSet(col, song_id,
           [f \in DOMAIN data \cup {"song_id"} |->
              IF f \in DOMAIN data THEN data[f] ELSE song_id],
           FALSE)

\* The ids a Songs document can have, in the order the store streams them
\* (by document id, as strings): the 45 seeded ids and one more.
SongIds == <<"1", "10", "11", "12", "13", "14", "15", "16", "17", "18", "19", "2", "20", "21", "22", "23", "24", "25", "26", "27", "28", "29", "3", "30", "31", "32", "33", "34", "35", "36", "37", "38", "39", "4", "40", "41", "42", "43", "44", "45", "5", "6", "7", "8", "9", "s1">>

\* data.setdefault('song_id', doc.id); data.setdefault('id', doc.id)
SongItem(id, doc) ==
    [f \in DOMAIN doc \cup {"song_id", "id"} |->
       IF f \in DOMAIN doc THEN doc[f] ELSE id]

\* the documents query.stream() yields: all of them, or those of a category
Stream(col, category) ==
    SelectSeq(SongIds,
              LAMBDA id : /\ id \in DOMAIN col
                          /\ (category # "" => /\ "category" \in DOMAIN col[id]
                                               /\ col[id]["category"] = category))

RECURSIVE ListLoop(_, _, _, _, _)
ListLoop(col, stream, i, items, limit) ==
    IF i > Len(stream) THEN items
    ELSE LET items2 == Append(items, SongItem(stream[i], col[stream[i]]))
         IN  IF limit # 0 /\ Len(items2) >= limit THEN items2
             ELSE ListLoop(col, stream, i + 1, items2, limit)

ListSongs(col, category, limit) == ListLoop(col, Stream(col, category), 1, <<>>, limit)

\* catalog of seed_initial_songs, in iteration order
catalog == <<
    [category |-> "Classical", tracks |-> <<
        [id |-> 1, name |-> "Bach's Prelude", duration |-> 240, bpm |-> 72, key |-> "C Major"],
        [id |-> 2, name |-> "Mozart's Sonata", duration |-> 280, bpm |-> 68, key |-> "G Major"],
        [id |-> 3, name |-> "Beethoven's Symphony", duration |-> 320, bpm |-> 76, key |-> "F Major"],
        [id |-> 4, name |-> "Chopin's Nocturne", duration |-> 200, bpm |-> 65, key |-> "D Major"],
        [id |-> 5, name |-> "Vivaldi's Spring", duration |-> 260, bpm |-> 80, key |-> "A Major"],
        [id |-> 6, name |-> "Debussy's Clair de Lune", duration |-> 220, bpm |-> 62, key |-> "E Major"],
        [id |-> 7, name |-> "Pachelbel's Canon", duration |-> 300, bpm |-> 70, key |-> "Bb Major"],
        [id |-> 8, name |-> "Schubert's Ave Maria", duration |-> 180, bpm |-> 60, key |-> "C Major"],
        [id |-> 9, name |-> "Brahms' Lullaby", duration |-> 160, bpm |-> 58, key |-> "G Major"]>>],
    [category |-> "Rock", tracks |-> <<
        [id |-> 10, name |-> "Thunder Strike", duration |-> 210, bpm |-> 140, key |-> "E Minor"],
        [id |-> 11, name |-> "Electric Storm", duration |-> 195, bpm |-> 145, key |-> "A Minor"],
        [id |-> 12, name |-> "Power Chord", duration |-> 180, bpm |-> 135, key |-> "D Minor"],
        [id |-> 13, name |-> "Rock Anthem", duration |-> 240, bpm |-> 130, key |-> "G Minor"],
        [id |-> 14, name |-> "Guitar Hero", duration |-> 220, bpm |-> 138, key |-> "C Minor"],
        [id |-> 15, name |-> "Metal Fusion", duration |-> 200, bpm |-> 142, key |-> "F Minor"],
        [id |-> 16, name |-> "Drum Solo", duration |-> 160, bpm |-> 150, key |-> "B Minor"],
        [id |-> 17, name |-> "Bass Drop", duration |-> 185, bpm |-> 136, key |-> "E Minor"],
        [id |-> 18, name |-> "Amplified", duration |-> 205, bpm |-> 144, key |-> "A Minor"]>>],
    [category |-> "Pop", tracks |-> <<
        [id |-> 19, name |-> "Catchy Beat", duration |-> 180, bpm |-> 120, key |-> "C Major"],
        [id |-> 20, name |-> "Dance Floor", duration |-> 200, bpm |-> 125, key |-> "G Major"],
        [id |-> 21, name |-> "Radio Hit", duration |-> 190, bpm |-> 118, key |-> "F Major"],
        [id |-> 22, name |-> "Upbeat Melody", duration |-> 175, bpm |-> 122, key |-> "D Major"],
        [id |-> 23, name |-> "Feel Good", duration |-> 185, bpm |-> 115, key |-> "A Major"],
        [id |-> 24, name |-> "Summer Vibes", duration |-> 195, bpm |-> 128, key |-> "E Major"],
        [id |-> 25, name |-> "Chart Topper", duration |-> 170, bpm |-> 120, key |-> "Bb Major"],
        [id |-> 26, name |-> "Mainstream", duration |-> 188, bpm |-> 124, key |-> "C Major"],
        [id |-> 27, name |-> "Pop Anthem", duration |-> 205, bpm |-> 116, key |-> "G Major"]>>],
    [category |-> "Rap", tracks |-> <<
        [id |-> 28, name |-> "Street Beats", duration |-> 200, bpm |-> 95, key |-> "E Minor"],
        [id |-> 29, name |-> "Urban Flow", duration |-> 180, bpm |-> 88, key |-> "A Minor"],
        [id |-> 30, name |-> "Hip Hop Classic", duration |-> 220, bpm |-> 92, key |-> "D Minor"],
        [id |-> 31, name |-> "Freestyle", duration |-> 160, bpm |-> 100, key |-> "G Minor"],
        [id |-> 32, name |-> "Boom Bap", duration |-> 195, bpm |-> 85, key |-> "C Minor"],
        [id |-> 33, name |-> "Trap Beat", duration |-> 175, bpm |-> 105, key |-> "F Minor"],
        [id |-> 34, name |-> "Conscious Rap", duration |-> 240, bpm |-> 90, key |-> "B Minor"],
        [id |-> 35, name |-> "Underground", duration |-> 210, bpm |-> 87, key |-> "E Minor"],
        [id |-> 36, name |-> "Lyrical Flow", duration |-> 185, bpm |-> 93, key |-> "A Minor"]>>],
    [category |-> "R&B", tracks |-> <<
        [id |-> 37, name |-> "Smooth Soul", duration |-> 220, bpm |-> 75, key |-> "C Major"],
        [id |-> 38, name |-> "Velvet Voice", duration |-> 240, bpm |-> 70, key |-> "G Major"],
        [id |-> 39, name |-> "Groove Master", duration |-> 200, bpm |-> 78, key |-> "F Major"],
        [id |-> 40, name |-> "Soulful Nights", duration |-> 260, bpm |-> 68, key |-> "D Major"],
        [id |-> 41, name |-> "Love Ballad", duration |-> 210, bpm |-> 72, key |-> "A Major"],
        [id |-> 42, name |-> "Midnight Groove", duration |-> 195, bpm |-> 76, key |-> "E Major"],
        [id |-> 43, name |-> "Neo Soul", duration |-> 225, bpm |-> 74, key |-> "Bb Major"],
        [id |-> 44, name |-> "Rhythm & Blues", duration |-> 250, bpm |-> 65, key |-> "C Major"],
        [id |-> 45, name |-> "Smooth Operator", duration |-> 180, bpm |-> 80, key |-> "G Major"]>>]>>

\* urls.get(category, urls["Classical"])
_default_audio_url(category) ==
    CASE category = "Rock" -> "SoundHelix-Song-2.mp3"
      [] category = "Pop" -> "SoundHelix-Song-3.mp3"
      [] category = "Rap" -> "SoundHelix-Song-4.mp3"
      [] category = "R&B" -> "SoundHelix-Song-5.mp3"
      [] OTHER -> "SoundHelix-Song-1.mp3"

\* song_id = str(t["id"]).strip() and payload, for every track in loop order
RECURSIVE SeedWritesFrom(_)
SeedWritesFrom(c) ==
    IF c > Len(catalog) THEN <<>>
    ELSE [i \in 1..Len(catalog[c].tracks) |->
            LET t == catalog[c].tracks[i]
            IN  [song_id |-> ToString(t.id),
                 payload |-> [name |-> t.name, duration |-> t.duration,
                              bpm |-> t.bpm, key |-> t.key,
                              category |-> catalog[c].category,
                              url |-> _default_audio_url(catalog[c].category)]]]
         \o SeedWritesFrom(c + 1)

SeedWrites == SeedWritesFrom(1)

\* mutant: a write the store rejects is skipped and the loop goes on
RECURSIVE SeedLoop_ContinuesAfterFailure(_, _, _)
SeedLoop_ContinuesAfterFailure(col, n, failAt) ==
    IF n = 0 THEN [songs |-> col, written |-> 0, raised |-> FALSE]
    ELSE LET r == SeedLoop_ContinuesAfterFailure(col, n - 1, failAt)
         IN  IF r.raised THEN r
             ELSE IF n = failAt THEN r
             ELSE [songs |-> PutSongWrite(r.songs, SeedWrites[n].song_id,
                                          SeedWrites[n].payload),
                   written |-> r.written + 1, raised |-> FALSE]

\* mutant: only documents that did not exist yet are counted
RECURSIVE SeedLoop_CountsNewOnly(_, _, _)
SeedLoop_CountsNewOnly(col, n, failAt) ==
    IF n = 0 THEN [songs |-> col, written |-> 0, raised |-> FALSE]
    ELSE LET r == SeedLoop_CountsNewOnly(col, n - 1, failAt)
         IN  IF r.raised THEN r
             ELSE IF n = failAt THEN [r EXCEPT !.raised = TRUE]
             ELSE [songs |-> PutSongWrite(r.songs, SeedWrites[n].song_id,
                                          SeedWrites[n].payload),
                   written |-> IF SeedWrites[n].song_id \in DOMAIN r.songs
                               THEN r.written ELSE r.written + 1,
                   raised |-> FALSE]

\* The loop of seed_initial_songs after its first n iterations: the Songs
\* collection, the counter, and whether put_song raised.  The store rejects
\* write number failAt (0: none); put_song re-raises that error, which ends
\* the loop.  put_song returns True for every other write (song_id is not
\* empty), so each of them is counted.
RECURSIVE SeedLoop(_, _, _)
SeedLoop(col, n, failAt) ==
    IF n = 0 THEN [songs |-> col, written |-> 0, raised |-> FALSE]
    ELSE LET r == SeedLoop(col, n - 1, failAt)
         IN  IF r.raised THEN r
             ELSE IF n = failAt THEN [r EXCEPT !.raised = TRUE]
             ELSE [songs |-> PutSongWrite(r.songs, SeedWrites[n].song_id,
                                          SeedWrites[n].payload),
                   written |-> r.written + 1, raised |-> FALSE]

\* ----------------------------------------------------------------- state
VARIABLES
    user_email,   \* argument of get_recommended_playlist_for_user
    max_tracks,   \* argument of get_recommended_playlist_for_user
    file,         \* shared_recommendations.json
    pc,           \* "call" before the function ran, "done" after
    alloc,        \* the function's alloc list when it returned
    playlist,     \* the returned playlist
    users,        \* Users collection, keyed by email
    recs,         \* Recommendations collection, keyed by email
    events,       \* Events collection, store-generated ids
    songs,        \* Songs collection, keyed by song_id
    now,          \* last value read from the clock by _ts_ms()
    last,         \* the last call and its outcome
    prev,         \* the call before it
    pending       \* per session, the put_recommendations write it has built

allocVars == <<user_email, max_tracks, file, pc, alloc, playlist>>

dbVars == <<users, recs, events, songs, now, last, prev, pending>>

vars == <<allocVars, dbVars>>

NoCall == [op |-> "none"]

\* Two browser sessions share the store.
Sessions == {1, 2}
NoWrite == [pc |-> "idle"]

\* The store before the first call of a session.  A Users document may exist
\* already and carry fields upsert_user does not write.
LegacyUser == [user_email |-> "u1", name |-> "Ann", updated_at |-> 0, role |-> "patient"]

DbInit ==
    /\ users \in {EmptyCollection, ("u1" :> LegacyUser)}
    /\ recs = EmptyCollection
    /\ events = EmptyCollection
    /\ songs = EmptyCollection
    /\ now = 0
    /\ last = NoCall
    /\ prev = NoCall
    /\ pending = [s \in Sessions |-> NoWrite]

DbIdle ==
    /\ users = EmptyCollection
    /\ recs = EmptyCollection
    /\ events = EmptyCollection
    /\ songs = EmptyCollection
    /\ now = 0
    /\ last = NoCall
    /\ prev = NoCall
    /\ pending = [s \in Sessions |-> NoWrite]

AllocIdle ==
    /\ user_email = ""
    /\ max_tracks = 6
    /\ file = [state |-> "missing", data |-> EmptyDict]
    /\ pc = "call"
    /\ alloc = <<>>
    /\ playlist = <<>>

AllocInit ==
    /\ user_email \in Emails
    /\ max_tracks \in (0 - NegTracks)..MaxTracks
    /\ file \in Files
    /\ pc = "call"
    /\ alloc = <<>>
    /\ playlist = <<>>
    /\ DbIdle

get_recommended_playlist_for_user ==
    /\ pc = "call"
    /\ LET ranked == Ranked(RankedInput(user_email, file))
           al == IF RankedInput(user_email, file) = <<>> THEN <<>>
                 ELSE Allocate(ranked, max_tracks)
       IN  /\ alloc' = al
           /\ playlist' = BuildPlaylist(al, 1, <<>>, max_tracks)
    /\ pc' = "done"
    /\ UNCHANGED <<user_email, max_tracks, file>>
    /\ UNCHANGED dbVars

AllocNext == get_recommended_playlist_for_user

AllocSpec == AllocInit /\ [][AllocNext]_vars

\* ------------------------------------------------------- facade calls
\* A call that reaches the store either completes or gets a GoogleAPIError
\* (fail): the except clause re-raises it (after st.error when _debug is
\* set, which changes nothing here).  A failed store call changes no document.

upsert_user(email, name, fail, t) ==
    /\ IF NoKey(email)
       THEN /\ ~fail /\ t = now
            /\ last' = [op |-> "upsert_user", email |-> email, name |-> name,
                        failed |-> FALSE, outcome |-> "False"]
            /\ UNCHANGED users
       ELSE IF fail
       THEN /\ last' = [op |-> "upsert_user", email |-> email, name |-> name,
                        failed |-> TRUE, outcome |-> "raise"]
            /\ UNCHANGED users
       ELSE /\ users' = UpsertUserWrite(users, email, name, t)
            /\ last' = [op |-> "upsert_user", email |-> email, name |-> name,
                        failed |-> FALSE, outcome |-> "True"]
    /\ now' = t
    /\ UNCHANGED <<recs, events, songs>>

put_recommendations(email, categories, scores, fail, t) ==
    /\ IF NoKey(email)
       THEN /\ ~fail /\ t = now
            /\ last' = [op |-> "put_recommendations", email |-> email,
                        categories |-> categories, scores |-> scores,
                        failed |-> FALSE, outcome |-> "False"]
            /\ UNCHANGED recs
       ELSE IF fail
       THEN /\ last' = [op |-> "put_recommendations", email |-> email,
                        categories |-> categories, scores |-> scores,
                        failed |-> TRUE, outcome |-> "raise"]
            /\ UNCHANGED recs
       ELSE /\ recs' = PutRecWrite(recs, email, categories, scores, t)
            /\ last' = [op |-> "put_recommendations", email |-> email,
                        categories |-> categories, scores |-> scores,
                        failed |-> FALSE, outcome |-> "True"]
    /\ now' = t
    /\ UNCHANGED <<users, events, songs>>

\* snap.to_dict() if snap.exists else None: the value is <<doc>> or <<>>
GetRecommendations(col, email) ==
    IF ~NoKey(email) /\ email \in DOMAIN col THEN <<col[email]>> ELSE <<>>

get_recommendations(email, fail) ==
    /\ IF NoKey(email)
       THEN /\ ~fail
            /\ last' = [op |-> "get_recommendations", email |-> email,
                        failed |-> FALSE, outcome |-> "None",
                        value |-> <<>>]
       ELSE IF fail
       THEN last' = [op |-> "get_recommendations", email |-> email,
                     failed |-> TRUE, outcome |-> "raise",
                     value |-> <<>>]
       ELSE last' = [op |-> "get_recommendations", email |-> email,
                     failed |-> FALSE,
                     outcome |-> IF GetRecommendations(recs, email) = <<>>
                                 THEN "None" ELSE "doc",
                     value |-> GetRecommendations(recs, email)]
    /\ UNCHANGED <<users, recs, events, songs, now>>

\* self._events.add({...}): a new document under an id the store generates
log_event(email, event_type, fail, t, id) ==
    /\ IF NoKey(email)
       THEN /\ ~fail /\ t = now /\ id = 1
            /\ last' = [op |-> "log_event", email |-> email, event_type |-> event_type,
                        failed |-> FALSE, outcome |-> "False"]
            /\ UNCHANGED events
       ELSE IF fail
       THEN /\ id = 1
            /\ last' = [op |-> "log_event", email |-> email, event_type |-> event_type,
                        failed |-> TRUE, outcome |-> "raise"]
            /\ UNCHANGED events
       ELSE /\ id \notin DOMAIN events
            /\ events' = LogEventWrite(events, id, email, event_type, t)
            /\ last' = [op |-> "log_event", email |-> email, event_type |-> event_type,
                        failed |-> FALSE, outcome |-> "True"]
    /\ now' = t
    /\ UNCHANGED <<users, recs, songs>>

put_song(song_id, data, fail) ==
    /\ IF NoKey(song_id)
       THEN /\ ~fail
            /\ last' = [op |-> "put_song", song_id |-> song_id, data |-> data,
                        failed |-> FALSE, outcome |-> "False"]
            /\ UNCHANGED songs
       ELSE IF fail
       THEN /\ last' = [op |-> "put_song", song_id |-> song_id, data |-> data,
                        failed |-> TRUE, outcome |-> "raise"]
            /\ UNCHANGED songs
       ELSE /\ songs' = PutSongWrite(songs, song_id, data)
            /\ last' = [op |-> "put_song", song_id |-> song_id, data |-> data,
                        failed |-> FALSE, outcome |-> "True"]
    /\ UNCHANGED <<users, recs, events, now>>

\* category "" stands for None, limit 0 for None
list_songs(category, limit, fail) ==
    /\ IF fail
       THEN last' = [op |-> "list_songs", category |-> category, limit |-> limit,
                     failed |-> TRUE, outcome |-> "raise",
                     value |-> <<>>]
       ELSE last' = [op |-> "list_songs", category |-> category, limit |-> limit,
                     failed |-> FALSE, outcome |-> "list",
                     value |-> ListSongs(songs, category, limit)]
    /\ UNCHANGED <<users, recs, events, songs, now>>

\* rows is the number of rows the 1-row read found
health_check(fail) ==
    /\ last' = [op |-> "health_check", failed |-> fail,
                rows |-> IF fail \/ DOMAIN users = {} THEN 0 ELSE 1,
                outcome |-> HealthCheckOutcome(users, fail)]
    /\ UNCHANGED <<users, recs, events, songs, now>>

\* value is the count returned; a raised call returns nothing (0 here)
seed_initial_songs(failAt) ==
    LET r == SeedLoop(songs, Len(SeedWrites), failAt)
    IN  /\ songs' = r.songs
        /\ last' = [op |-> "seed_initial_songs", fail_at |-> failAt,
                    failed |-> failAt # 0,
                    outcome |-> IF r.raised THEN "raise" ELSE "count",
                    value |-> IF r.raised THEN 0 ELSE r.written]
        /\ UNCHANGED <<users, recs, events, now>>

\* ------------------------------------------------------------- main()
CAREGIVER_EMAILS == {"vani.kandasamy@pyxeda.ai"}

\* email.lower(), on the addresses used here
Lower(email) ==
    IF email = "Vani.Kandasamy@pyxeda.ai" THEN "vani.kandasamy@pyxeda.ai" ELSE email

is_caregiver(email) == Lower(email) \in {Lower(e) : e \in CAREGIVER_EMAILS}

\* One run of main().  user is <<>> (not logged in) or <<[email, name]>>.
\* The login writes are not guarded: an error raised by upsert_user or
\* log_event ends main().  button is the admin button pressed in this run;
\* its handler catches every exception.  fail_at: the raw write fails when
\* it is not 0, the seed fails at that write.
main(user, fail_user, fail_log, t1, t2, id, button, fail_at) ==
    IF user = <<>>
    THEN /\ last' = [op |-> "main", user |-> user, failed_user |-> FALSE,
                     failed_log |-> FALSE, outcome |-> "stop"]
         /\ UNCHANGED <<users, recs, events, songs, now>>
    ELSE LET email == user[1].email
             name == NameOrUser(user[1].name)
             login == email # ""
             raised_user == login /\ fail_user
             raised_log == login /\ ~fail_user /\ fail_log
             raised == raised_user \/ raised_log
             users1 == IF login /\ ~raised_user
                       THEN UpsertUserWrite(users, email, name, t1) ELSE users
         IN  /\ t1 <= t2
             /\ login /\ ~raised => id \notin DOMAIN events
             /\ events' = IF login /\ ~raised
                           THEN LogEventWrite(events, id, email, "login", t2)
                           ELSE events
             /\ users' = IF ~raised /\ button = "raw" /\ fail_at = 0
                          THEN DocSet(users1, "user@example.com",
                                      [user_email |-> "user@example.com"], FALSE)
                          ELSE users1
             /\ songs' = IF ~raised /\ button = "seed"
                          THEN SeedLoop(songs, Len(SeedWrites), fail_at).songs ELSE songs
             /\ now' = IF ~login THEN now ELSE IF raised_user THEN t1 ELSE t2
             /\ last' = [op |-> "main", user |-> user,
                         failed_user |-> raised_user, failed_log |-> raised_log,
                         outcome |-> IF raised THEN "raise"
                                     ELSE IF login /\ is_caregiver(email)
                                     THEN "caregiver" ELSE "general"]
             /\ UNCHANGED recs

\* ------------------------------------------------------- call arguments
Names == {"", "Ann", "Bob"}
CatsA == <<[category |-> "Classical", score |-> 3], [category |-> "Rock", score |-> 1]>>
CatsB == <<[category |-> "Pop", score |-> 2]>>
CategoryArgs == {<<>>, CatsA, CatsB}
ScoresA == [engagement |-> 7, focus |-> 5]
ScoreArgs == {NoScores, <<ScoresA>>}
SongData == {[name |-> "Thunder Strike", category |-> "Rock"],
             [name |-> "Catchy Beat", category |-> "Pop"]}
SongIdArgs == {"", "1", "2"}
Times == now..MaxTime

\* ------------------------------------------- the facade, every operation
UpsertUser ==
    /\ \E e \in {"", "u1"}, n \in {"", "Ann"}, f \in BOOLEAN, t \in Times :
          upsert_user(e, n, f, t)
    /\ UNCHANGED <<prev, pending, allocVars>>

PutRecommendations ==
    /\ \E e \in {"", "u1"}, c \in {CatsA}, s \in ScoreArgs, f \in BOOLEAN, t \in Times :
          put_recommendations(e, c, s, f, t)
    /\ UNCHANGED <<prev, pending, allocVars>>

GetRecommendationsCall ==
    /\ \E e \in {"", "u1"}, f \in BOOLEAN : get_recommendations(e, f)
    /\ UNCHANGED <<prev, pending, allocVars>>

LogEvent ==
    /\ \E e \in {"", "u1"}, f \in BOOLEAN, t \in Times, id \in 1..MaxEvents :
          log_event(e, "login", f, t, id)
    /\ UNCHANGED <<prev, pending, allocVars>>

PutSong ==
    /\ \E id \in SongIdArgs, d \in SongData, f \in BOOLEAN : put_song(id, d, f)
    /\ UNCHANGED <<prev, pending, allocVars>>

ListSongsCall ==
    /\ \E c \in {"", "Rock"}, l \in {0, 1}, f \in BOOLEAN : list_songs(c, l, f)
    /\ UNCHANGED <<prev, pending, allocVars>>

Init == DbIdle /\ AllocIdle

Next ==
    \/ UpsertUser
    \/ PutRecommendations
    \/ GetRecommendationsCall
    \/ LogEvent
    \/ PutSong
    \/ ListSongsCall

Spec == Init /\ [][Next]_vars

\* --------------------------------- Recommendations, with the call before
RecPut ==
    /\ \E e \in {"", "u1"}, c \in CategoryArgs, s \in ScoreArgs, f \in BOOLEAN, t \in Times :
          put_recommendations(e, c, s, f, t)
    /\ prev' = last
    /\ UNCHANGED <<pending, allocVars>>

RecGet ==
    /\ \E e \in {"", "u1"}, f \in BOOLEAN : get_recommendations(e, f)
    /\ prev' = last
    /\ UNCHANGED <<pending, allocVars>>

RecNext == RecPut \/ RecGet

RecSpec == Init /\ [][RecNext]_vars

\* ------------------------------------------- Users, with the call before
UserInit == DbInit /\ AllocIdle

UserUpsert ==
    /\ \E e \in {"", "u1", "u2"}, n \in Names, f \in BOOLEAN, t \in Times :
          upsert_user(e, n, f, t)
    /\ prev' = last
    /\ UNCHANGED <<pending, allocVars>>

UserNext == UserUpsert

UserSpec == UserInit /\ [][UserNext]_vars

\* ------------------------------------------------------------- Songs
\* a track dict that carries its own id, as those of MELODY_DATABASE do
SongDataWithId == [name |-> "Thunder Strike", category |-> "Rock", id |-> "track-10"]
SongPutData == {SongDataWithId, [name |-> "Catchy Beat", category |-> "Pop"]}
SongPutIds == {"", "10", "s1"}
SeedFailPoints == {0, 1, 2, 10, 45}

SongPut ==
    /\ \E id \in SongPutIds, d \in SongPutData, f \in BOOLEAN : put_song(id, d, f)
    /\ UNCHANGED <<prev, pending, allocVars>>

SongList ==
    /\ \E c \in {"", "Rock", "Pop"}, l \in {0, 1, 3}, f \in BOOLEAN : list_songs(c, l, f)
    /\ UNCHANGED <<prev, pending, allocVars>>

SongSeed ==
    /\ \E k \in SeedFailPoints : seed_initial_songs(k)
    /\ UNCHANGED <<prev, pending, allocVars>>

SongNext == SongPut \/ SongList \/ SongSeed

SongSpec == Init /\ [][SongNext]_vars

\* ------------------------------------- seeding, with the call before
SeedRun ==
    /\ \E k \in SeedFailPoints : seed_initial_songs(k)
    /\ prev' = last
    /\ UNCHANGED <<pending, allocVars>>

SeedPut ==
    /\ \E id \in SongPutIds, d \in SongPutData, f \in BOOLEAN : put_song(id, d, f)
    /\ prev' = last
    /\ UNCHANGED <<pending, allocVars>>

SeedNext == SeedRun \/ SeedPut

SeedSpec == Init /\ [][SeedNext]_vars

\* ------------------------------------------------------ runs of main()
MainUsers ==
    {<<>>} \cup {<<[email |-> e, name |-> "Ann"]>> :
                   e \in {"", "u1", "Vani.Kandasamy@pyxeda.ai"}}
Buttons == {"none", "health", "raw", "seed"}

Main ==
    /\ \E u \in MainUsers, fu \in BOOLEAN, fl \in BOOLEAN, t1 \in Times, t2 \in Times,
          id \in 1..MaxEvents, b \in Buttons, k \in {0, 2} :
          main(u, fu, fl, t1, t2, id, b, k)
    /\ UNCHANGED <<prev, pending, allocVars>>

MainNext == Main

MainSpec == Init /\ [][MainNext]_vars

\* ------------------------------------------------- Users and health_check
HealthUpsert ==
    /\ \E e \in {"", "u1", "u2"}, n \in Names, f \in BOOLEAN, t \in Times :
          upsert_user(e, n, f, t)
    /\ UNCHANGED <<prev, pending, allocVars>>

HealthCheck ==
    /\ \E f \in BOOLEAN : health_check(f)
    /\ UNCHANGED <<prev, pending, allocVars>>

HealthNext == HealthUpsert \/ HealthCheck

HealthSpec == UserInit /\ [][HealthNext]_vars

\* ------------------------------------------------------------- Events
EventTypes == {"login", "play"}

EventLog ==
    /\ \E e \in {"", "u1"}, ty \in EventTypes, f \in BOOLEAN, t \in Times,
          id \in 1..MaxEvents : log_event(e, ty, f, t, id)
    /\ UNCHANGED <<prev, pending, allocVars>>

EventUpsert ==
    /\ \E f \in BOOLEAN, t \in Times : upsert_user("u1", "Ann", f, t)
    /\ UNCHANGED <<prev, pending, allocVars>>

EventNext == EventLog \/ EventUpsert

EventSpec == Init /\ [][EventNext]_vars

\* ------------------------------------ the operations keyed by an email
KeyNext == UpsertUser \/ PutRecommendations \/ GetRecommendationsCall

KeySpec == Init /\ [][KeyNext]_vars

\* ------------------------- two sessions writing one user's recommendations
\* put_recommendations in two steps: the session builds data (reading the
\* clock), then the store applies or rejects its set().
SessionCategories(s) == IF s = 1 THEN CatsA ELSE CatsB
SessionScores(s) == IF s = 1 THEN <<ScoresA>> ELSE NoScores

ConcBuild(s) ==
    /\ pending[s].pc = "idle"
    /\ \E t \in Times :
          /\ pending' = [pending EXCEPT ![s] =
                            [pc |-> "built", email |-> "u1",
                             categories |-> SessionCategories(s),
                             scores |-> SessionScores(s), t |-> t]]
          /\ now' = t
    /\ UNCHANGED <<users, recs, events, songs, last, prev, allocVars>>

ConcApply(s) ==
    /\ pending[s].pc = "built"
    /\ \E fail \in BOOLEAN :
          LET w == pending[s]
          IN  /\ recs' = IF fail THEN recs
                         ELSE PutRecWrite(recs, w.email, w.categories, w.scores, w.t)
              /\ last' = [op |-> "put_recommendations", session |-> s,
                          email |-> w.email, categories |-> w.categories,
                          scores |-> w.scores, t |-> w.t, failed |-> fail,
                          outcome |-> IF fail THEN "raise" ELSE "True"]
    /\ prev' = last
    /\ pending' = [pending EXCEPT ![s] = NoWrite]
    /\ UNCHANGED <<users, events, songs, now, allocVars>>

ConcBuild1 == ConcBuild(1)
ConcBuild2 == ConcBuild(2)
ConcApply1 == ConcApply(1)
ConcApply2 == ConcApply(2)

ConcNext == ConcBuild1 \/ ConcBuild2 \/ ConcApply1 \/ ConcApply2

ConcSpec == Init /\ [][ConcNext]_vars

\* ------------------------------------------------- allocator properties
HasEntry == file.state = "ok" /\ user_email \in DOMAIN file.data

\* The category list stored for user_email, <<>> when there is none.
StoredList ==
    IF HasEntry /\ file.data[user_email].isdict /\ file.data[user_email].has_categories
    THEN file.data[user_email].categories
    ELSE <<>>

InCatalog(l) == SelectSeq(l, LAMBDA r : r.category \in DOMAIN MELODY_DATABASE)

Contributed(c) == Cardinality({p \in 1..Len(playlist) : playlist[p].category = c})

RECURSIVE SumCounts(_, _)
SumCounts(al, n) == IF n = 0 THEN 0 ELSE al[n].count + SumCounts(al, n - 1)

DistinctCategories(l) ==
    \A i, j \in 1..Len(l) : l[i].category = l[j].category => i = j

\* C1 (as stated): for any max_tracks value the playlist has at most
\* max_tracks entries.
C1_BudgetAnyMaxTracks == pc = "done" => Len(playlist) <= max_tracks

\* C1 (amended): for max_tracks >= 0 the playlist has at most max_tracks
\* entries; for a negative max_tracks it has at most one entry.
C1_Budget ==
    pc = "done" =>
        /\ max_tracks >= 0 => Len(playlist) <= max_tracks
        /\ max_tracks < 0 => Len(playlist) <= 1

C1_Witness ==
    /\ pc = "done"
    /\ max_tracks >= 2
    /\ Len(alloc) >= 2
    /\ Len(playlist) = max_tracks

C1_WitnessNegative == pc = "done" /\ max_tracks < 0 /\ Len(playlist) = 1

\* C2: every category of the list with weight > 0 that is in the catalog has
\* at least one track in the playlist, unless the counts allocated to the
\* categories before it already used up max_tracks.
C2_MinimumShare ==
    pc = "done" =>
        LET R == InCatalog(StoredList)
        IN  \A i \in 1..Len(R) :
                (user_email # "" /\ R[i].score > 0) =>
                    \/ Contributed(R[i].category) >= 1
                    \/ max_tracks - SumCounts(alloc, Min(i - 1, Len(alloc))) <= 0

\* a category whose share rounds to 0 tracks still has one
C2_Witness ==
    /\ pc = "done"
    /\ user_email # ""
    /\ LET R == InCatalog(StoredList)
       IN  /\ Len(R) = 3
           /\ DistinctCategories(<<R[1], R[2]>>)
           /\ R[1].score > 0
           /\ Round(R[1].score * max_tracks, Total(StoredList)) = 0
           /\ Contributed(R[1].category) = 1
           /\ Contributed(R[2].category) >= 1

\* C3: when the weights of the listed categories that are in the catalog
\* sum to 0, the playlist is empty.
C3_ZeroTotalEmpty ==
    pc = "done" => (SumScores(InCatalog(StoredList)) = 0 => playlist = <<>>)

\* C4: for a list naming each category once, the tracks of a category with
\* a higher weight come before the tracks of a category with a lower one.
C4_DescendingWeightOrder ==
    (pc = "done" /\ DistinctCategories(StoredList)) =>
        \A i, j \in 1..Len(StoredList) :
            StoredList[i].score > StoredList[j].score =>
                \A p, q \in 1..Len(playlist) :
                    (/\ playlist[p].category = StoredList[i].category
                     /\ playlist[q].category = StoredList[j].category) => p < q

\* C5: for a list naming each category once and max_tracks >= 1, the k-th
\* processed category contributes min(max(1, round(share * max_tracks)),
\* size, remaining) tracks, share = weight / sum of the weights of the
\* listed categories that are in the catalog.
C5_CountFormula ==
    (pc = "done" /\ max_tracks >= 1 /\ user_email # ""
        /\ DistinctCategories(StoredList)) =>
        LET R == InCatalog(StoredList)
            T == SumScores(R)
        IN  T > 0 =>
              \A k \in 1..Len(alloc) :
                Contributed(R[k].category) =
                    Min(Min(Max(1, Round(R[k].score * max_tracks, T)),
                            Len(MELODY_DATABASE[R[k].category])),
                        max_tracks - SumCounts(alloc, k - 1))

\* C6: Classical 3, Rock 1 and max_tracks = 6 give 5 Classical tracks
\* followed by 1 Rock track.
C6_ThreeToOneExample ==
    (/\ pc = "done"
     /\ user_email # ""
     /\ HasEntry
     /\ StoredList = <<[category |-> "Classical", score |-> 3],
                       [category |-> "Rock", score |-> 1]>>
     /\ max_tracks = 6) =>
        playlist = [p \in 1..6 |->
                      IF p <= 5 THEN [id |-> p, category |-> "Classical"]
                      ELSE [id |-> 10, category |-> "Rock"]]

\* C7: with no stored entry, an empty category list, or no listed category
\* in the catalog the playlist is empty; every track of a playlist belongs
\* to a listed category of the catalog.
C7_EmptyWithoutGuidance ==
    pc = "done" =>
        /\ (~HasEntry \/ StoredList = <<>> \/ InCatalog(StoredList) = <<>>)
               => playlist = <<>>
        /\ \A p \in 1..Len(playlist) :
              /\ playlist[p].category \in DOMAIN MELODY_DATABASE
              /\ \E i \in 1..Len(StoredList) :
                    StoredList[i].category = playlist[p].category
              /\ \E k \in DOMAIN MELODY_DATABASE[playlist[p].category] :
                    MELODY_DATABASE[playlist[p].category][k] = playlist[p].id

\* a list mixing a category outside the catalog with one inside it
C7_Witness ==
    /\ pc = "done"
    /\ user_email # ""
    /\ \E i \in 1..Len(StoredList) : StoredList[i].category = "Jazz"
    /\ \E i \in 1..Len(StoredList) : StoredList[i].score > 0
    /\ playlist # <<>>
    /\ max_tracks > 0

C7_WitnessNoEntry == pc = "done" /\ user_email # "" /\ ~HasEntry /\ playlist = <<>>

C20_NoDuplicateTracks ==
    pc = "done" =>
        \A p, q \in 1..Len(playlist) : playlist[p].id = playlist[q].id => p = q

\* ---------------------------------------------------- facade properties
Called(c, op) == c.op = op

Returned(c, op, outcome) == c.op = op /\ c.outcome = outcome

\* The value each operation is documented to return on a store error.
Sentinel(op) ==
    CASE op = "get_recommendations" -> "None"
      [] op = "list_songs" -> "list"
      [] OTHER -> "False"

\* C8: a call during which the store failed does not raise: it returns
\* false (upsert_user, put_recommendations, log_event, put_song), null
\* (get_recommendations) or an empty list (list_songs).
C8_FailureSentinel ==
    (last.op # "none" /\ last.failed) =>
        /\ last.outcome = Sentinel(last.op)
        /\ last.op \in {"get_recommendations", "list_songs"} => last.value = <<>>

RecFields == {"user_email", "updated_at", "categories"}

\* The document of email holds exactly the replacing write: its categories
\* and no cognitive_scores.
HoldsOnly(doc, email, categories) ==
    /\ DOMAIN doc = RecFields
    /\ doc["user_email"] = email
    /\ doc["categories"] = categories

\* C9: after a successful put_recommendations(email, catsB, None), whatever
\* was written for email before, the Recommendation document holds catsB and
\* no cognitive_scores, and get_recommendations(email) returns that document.
C9_ReplaceSemantics ==
    /\ (Returned(last, "put_recommendations", "True") /\ last.scores = NoScores) =>
          /\ last.email \in DOMAIN recs
          /\ HoldsOnly(recs[last.email], last.email, last.categories)
          /\ GetRecommendations(recs, last.email) = <<recs[last.email]>>
    /\ (/\ Returned(prev, "put_recommendations", "True")
        /\ prev.scores = NoScores
        /\ Called(last, "get_recommendations")
        /\ last.email = prev.email
        /\ ~last.failed) =>
          /\ last.outcome = "doc"
          /\ HoldsOnly(last.value[1], prev.email, prev.categories)

\* put(email, catsA, scoresA) then put(email, catsB, None)
C9_Witness ==
    /\ Returned(prev, "put_recommendations", "True")
    /\ prev.scores # NoScores
    /\ Returned(last, "put_recommendations", "True")
    /\ last.scores = NoScores
    /\ last.email = prev.email
    /\ last.categories # prev.categories
    /\ prev.categories # <<>>
    /\ "cognitive_scores" \notin DOMAIN recs[last.email]

UpsertFields == {"user_email", "name", "updated_at"}

SameApartFromUpdatedAt(d1, d2) ==
    /\ DOMAIN d1 = DOMAIN d2
    /\ \A f \in DOMAIN d1 \ {"updated_at"} : d1[f] = d2[f]

\* C10: every successful upsert_user(email, name) leaves exactly one User
\* document with that email, under the key email, and touches no other
\* document; the fields the document had besides user_email, name and
\* updated_at are kept; and when the call before it was the same successful
\* upsert_user(email, name), the document is as that call left it, apart
\* from updated_at.
C10_UpsertIdempotentMerge ==
    [][Returned(last', "upsert_user", "True") =>
        LET e == last'.email
            old == IF e \in DOMAIN users THEN users[e] ELSE EmptyDict
        IN  /\ DOMAIN users' = DOMAIN users \cup {e}
            /\ \A k \in DOMAIN users \ {e} : users'[k] = users[k]
            /\ Cardinality({k \in DOMAIN users' : users'[k]["user_email"] = e}) = 1
            /\ users'[e]["user_email"] = e
            /\ users'[e]["name"] = NameOrUser(last'.name)
            /\ DOMAIN users'[e] = UpsertFields \cup DOMAIN old
            /\ \A f \in DOMAIN old \ UpsertFields : users'[e][f] = old[f]
            /\ (/\ Returned(last, "upsert_user", "True")
                /\ last.email = e
                /\ last.name = last'.name) =>
                    SameApartFromUpdatedAt(users'[e], users[e])]_vars

\* the same upsert twice, at two clock values, on a document that carried
\* another field
C10_Witness ==
    /\ Returned(prev, "upsert_user", "True")
    /\ Returned(last, "upsert_user", "True")
    /\ last.email = prev.email
    /\ last.name = prev.name
    /\ last.name = "Bob"
    /\ "role" \in DOMAIN users[last.email]
    /\ users[last.email]["name"] = "Bob"
    /\ users[last.email]["updated_at"] = MaxTime
    /\ \E k \in DOMAIN users : k # last.email

\* C11: whenever the store has applied a put_recommendations write, the
\* Recommendation document of that email is, field for field, the document
\* of that write: never categories of one write with cognitive_scores of
\* the other.
C11_LastWriterWins ==
    Returned(last, "put_recommendations", "True") =>
        /\ last.email \in DOMAIN recs
        /\ recs[last.email] =
              RecData(last.email, last.categories, last.scores, last.t)
        /\ ("cognitive_scores" \in DOMAIN recs[last.email]) = (last.scores # NoScores)

\* session 2 built its write after session 1 and was applied first;
\* session 1's write, built earlier, was applied last
C11_Witness ==
    /\ Returned(prev, "put_recommendations", "True")
    /\ Returned(last, "put_recommendations", "True")
    /\ prev.session = 1
    /\ last.session = 2
    /\ prev.email = last.email
    /\ prev.t > last.t
    /\ "cognitive_scores" \notin DOMAIN recs[last.email]
    /\ recs[last.email]["categories"] = CatsB
    /\ recs[last.email]["updated_at"] < now

\* all collections of the store
Collections == <<users, recs, events, songs>>

\* the song ids of the first n writes of the seed
SeedIds(n) == {SeedWrites[i].song_id : i \in 1..n}
SeedDoc(id) ==
    LET i == CHOOSE j \in 1..Len(SeedWrites) : SeedWrites[j].song_id = id
    IN  [f \in DOMAIN SeedWrites[i].payload \cup {"song_id"} |->
           IF f = "song_id" THEN id ELSE SeedWrites[i].payload[f]]
\* col after the first n writes of the seed
Seeded(col, n) ==
    [id \in DOMAIN col \cup SeedIds(n) |->
       IF id \in SeedIds(n) THEN SeedDoc(id) ELSE col[id]]

C13_LoginNeverBlocks ==
    (last.op = "main" /\ last.user # <<>>) =>
        last.outcome = IF last.user[1].email # "" /\ is_caregiver(last.user[1].email)
                       THEN "caregiver" ELSE "general"

\* C14: health_check returns true exactly when the 1-row read of Users met no
\* store error, with or without a row found, and false, not an exception,
\* when the store cannot be reached.
C14_HealthCheck ==
    last.op = "health_check" =>
        /\ last.outcome \in {"True", "False"}
        /\ (last.outcome = "True") = ~last.failed

C14_Witness ==
    /\ last.op = "health_check"
    /\ ~last.failed
    /\ last.rows = 0
    /\ users = EmptyCollection
    /\ last.outcome = "True"

C14_WitnessUnreachable ==
    /\ last.op = "health_check"
    /\ last.failed
    /\ users # EmptyCollection
    /\ last.outcome = "False"

\* the keys of col that hold a document of the category, in stream order
Matching(col, category) ==
    SelectSeq(SongIds, LAMBDA id : id \in DOMAIN col /\ col[id]["category"] = category)

\* C15: list_songs(category, limit) returns the first min(limit, number of
\* matching documents) documents of the category, in stream order, and the
\* id of every returned item is the key of its document.
C15_ListSongs ==
    (/\ Returned(last, "list_songs", "list")
     /\ last.category # ""
     /\ last.limit >= 1) =>
        LET m == Matching(songs, last.category)
            n == Min(last.limit, Len(m))
        IN  /\ Len(last.value) = n
            /\ \A i \in 1..n :
                  /\ last.value[i]["category"] = last.category
                  /\ last.value[i]["song_id"] = m[i]
                  /\ last.value[i]["id"] = m[i]

\* C16: on a healthy store seed_initial_songs returns 45, nine for each of
\* the five categories, leaves every catalog song under its id, and a run
\* that follows a healthy run changes nothing in Songs.
C16_SeedIdempotent ==
    [][Returned(last', "seed_initial_songs", "count") =>
         /\ last'.value = Len(SeedWrites)
         /\ last'.value = 45
         /\ \A c \in DOMAIN catalog : Len(catalog[c].tracks) = 9
         /\ Len(catalog) = 5
         /\ \A id \in SeedIds(Len(SeedWrites)) :
               id \in DOMAIN songs' /\ songs'[id] = SeedDoc(id)
         /\ \A id \in DOMAIN songs \ SeedIds(Len(SeedWrites)) :
               id \in DOMAIN songs' /\ songs'[id] = songs[id]
         /\ Returned(last, "seed_initial_songs", "count") => songs' = songs]_vars

\* a healthy run after a healthy run, over a song put under another id
C16_Witness ==
    /\ Returned(prev, "seed_initial_songs", "count")
    /\ Returned(last, "seed_initial_songs", "count")
    /\ last.value = 45
    /\ "s1" \in DOMAIN songs
    /\ Cardinality(DOMAIN songs) = 46

\* C17: no step changes or removes an Event document, and each successful
\* log_event adds exactly one document, under an id that was not in use,
\* also when an equal event is stored already.
C17_EventsAppendOnly ==
    [][/\ \A id \in DOMAIN events :
             id \in DOMAIN events' /\ events'[id] = events[id]
       /\ Returned(last', "log_event", "True") =>
             \E id \in DOMAIN events' \ DOMAIN events :
                /\ DOMAIN events' = DOMAIN events \cup {id}
                /\ events'[id] = [user_email |-> last'.email, ts |-> now',
                                  event_type |-> last'.event_type,
                                  payload |-> EmptyDict]]_vars

\* the same call twice: two equal Event documents under two ids
C17_Witness ==
    /\ Returned(last, "log_event", "True")
    /\ \E i, j \in DOMAIN events : i # j /\ events[i] = events[j]

\* C18: with an empty email upsert_user and put_recommendations return
\* false and get_recommendations returns null, without raising and without
\* changing a collection; get_recommendations returns null too when the
\* store holds no document for a non-empty email.
C18_EmptyEmail ==
    [][/\ (/\ last'.op \in {"upsert_user", "put_recommendations", "get_recommendations"}
            /\ last'.email = "") =>
             /\ last'.outcome = Sentinel(last'.op)
             /\ Collections' = Collections
       /\ (/\ last'.op = "get_recommendations"
            /\ ~last'.failed
            /\ last'.email \notin DOMAIN recs) =>
             /\ last'.outcome = "None"
             /\ last'.value = <<>>]_vars

C18_Witness ==
    /\ Returned(last, "put_recommendations", "False")
    /\ last.email = ""
    /\ users # EmptyCollection
    /\ recs # EmptyCollection

C18_WitnessNoDocument ==
    /\ Returned(last, "get_recommendations", "None")
    /\ last.email = "u1"
    /\ users # EmptyCollection
    /\ recs = EmptyCollection

====
